---------------------------- MODULE Spec2Model ----------------------------
(***************************************************************************)
(* A model of reg_api (src/reg_api.h, src/reg_api.cpp): a typed facade     *)
(* over one registry key.  Strings are sequences of character codes        *)
(* (0..255), so that the codecs are computed character by character the    *)
(* way the C++ computes them.                                              *)
(*                                                                         *)
(* Three specifications share the variables:                               *)
(*   SpecB64  the Base64 codec (b64, b64_d) applied to bounded inputs;     *)
(*   SpecNum  the numeric codec (number_to_string, string_to_number);      *)
(*   Spec     one reg_api instance at a time over a persistent registry    *)
(*            key: chroot / close / destruction and every typed read and   *)
(*            write.                                                       *)
(***************************************************************************)
EXTENDS Integers, Sequences, FiniteSets, TLC

VARIABLES
    (* the reg_api instance and its process *)
    alive,          \* the instance is constructed and not yet destroyed
    pid,            \* GetCurrentProcessId() of the running process
    m_h_key,        \* reg_api::m_h_key (NULL is 0)
    m_is_open,      \* reg_api::m_is_open
    (* the operating system's side *)
    open_handles,   \* key handles opened and not yet closed
    double_close,   \* RegCloseKey was called on a handle that is not open
    store,          \* the values of the registry key: name -> raw bytes
    (* history *)
    origin,         \* which typed write last stored each value (ghost)
    last,           \* the last operation called, its arguments and result
    (* the pure codecs, applied to an input *)
    fn,             \* which function produced `output`
    input,          \* the input drawn in Init
    mid,            \* the intermediate string (the encoded form)
    output          \* the result

vars == << alive, pid, m_h_key, m_is_open, open_handles, double_close,
           store, origin, last, fn, input, mid, output >>

inst_vars == << alive, pid, m_h_key, m_is_open, open_handles, double_close,
                store, origin, last >>

pure_vars == << fn, input, mid, output >>

----------------------------------------------------------------------------
(* Bounds of the model *)

\* longest byte sequence handed to b64
MaxBytes == 6
\* longest text handed to b64_d
MaxText == 5
\* largest whole part of the numbers handed to the numeric codec
MaxWhole == 120
\* sizeof(T) of the small records written by write_obj
MaxRecSize == 2

----------------------------------------------------------------------------
(* 32-bit int arithmetic of b64 and b64_d (int val).  A value is kept as   *)
(* the signed integer it denotes; a left shift keeps the low 32 bits (the  *)
(* result every two's complement build produces, and the defined result   *)
(* since C++20), a right shift is arithmetic.                              *)

\* val << n, for 2 <= n <= 30
Shl32(v, n) ==
    LET m  == 2^(32 - n)
        lo == v % m
    IN  IF lo >= m \div 2 THEN (lo - m) * 2^n ELSE lo * 2^n

\* val >> n
Sar32(v, n) == v \div (2^n)

\* x & 0x3F and x & 0xFF
And3F(x) == x % 64
AndFF(x) == x % 256

----------------------------------------------------------------------------
(* Base64 *)

\* base64_chars, 1-indexed: "A-Za-z0-9+/"
base64_chars ==
    [i \in 1..64 |->
        IF i <= 26 THEN 64 + i
        ELSE IF i <= 52 THEN 70 + i
        ELSE IF i <= 62 THEN i - 5
        ELSE IF i = 63 THEN 43 ELSE 47]

\* base64_chars[v] of the C++ (0-indexed)
Base64Char(v) == base64_chars[v + 1]

\* std::vector<int> T(256, -1); T[base64_chars[i]] = i;
T ==
    [c \in 0..255 |->
        IF \E i \in 1..64 : base64_chars[i] = c
        THEN (CHOOSE i \in 1..64 : base64_chars[i] = c) - 1
        ELSE -1]

\* while (valb >= 0) { out.push_back(...); valb -= 6; }
RECURSIVE b64_emit(_, _, _)
b64_emit(out, val, valb) ==
    IF valb >= 0
    THEN b64_emit(Append(out, Base64Char(And3F(Sar32(val, valb)))), val, valb - 6)
    ELSE [out |-> out, valb |-> valb]

\* while (out.size() % 4) out.push_back('=');
RECURSIVE b64_pad(_)
b64_pad(out) == IF Len(out) % 4 # 0 THEN b64_pad(Append(out, 61)) ELSE out

\* a faulty b64_flush: the last partial group is dropped
b64_flush_dropped(out, val, valb) == out

\* if (valb > -6) out.push_back(base64_chars[((val << 8) >> (valb + 8)) & 0x3F]);
b64_flush(out, val, valb) ==
    IF valb > -6
    THEN Append(out, Base64Char(And3F(Sar32(Shl32(val, 8), valb + 8))))
    ELSE out

\* for (unsigned char c : in) { val = (val << 8) + c; valb += 8; ... }
RECURSIVE b64_loop(_, _, _, _, _)
b64_loop(in, i, out, val, valb) ==
    IF i > Len(in)
    THEN b64_pad(b64_flush(out, val, valb))
    ELSE LET val1 == Shl32(val, 8) + in[i]
             e    == b64_emit(out, val1, valb + 8)
         IN  b64_loop(in, i + 1, e.out, val1, e.valb)

b64(in) == b64_loop(in, 1, << >>, 0, -6)

\* for (unsigned char c : in) { if (T[c] == -1) break; ... }
RECURSIVE b64_d_loop(_, _, _, _, _)
b64_d_loop(in, i, out, val, valb) ==
    IF i > Len(in) \/ T[in[i]] = -1
    THEN out
    ELSE LET val1  == Shl32(val, 6) + T[in[i]]
             valb1 == valb + 6
         IN  IF valb1 >= 0
             THEN b64_d_loop(in, i + 1,
                             Append(out, AndFF(Sar32(val1, valb1))), val1, valb1 - 8)
             ELSE b64_d_loop(in, i + 1, out, val1, valb1)

\* a faulty b64_d loop: a character outside the alphabet is skipped, not a stop
RECURSIVE b64_d_skipping(_, _, _, _, _)
b64_d_skipping(in, i, out, val, valb) ==
    IF i > Len(in)
    THEN out
    ELSE IF T[in[i]] = -1
    THEN b64_d_skipping(in, i + 1, out, val, valb)
    ELSE LET val1  == Shl32(val, 6) + T[in[i]]
             valb1 == valb + 6
         IN  IF valb1 >= 0
             THEN b64_d_skipping(in, i + 1,
                             Append(out, AndFF(Sar32(val1, valb1))), val1, valb1 - 8)
             ELSE b64_d_skipping(in, i + 1, out, val1, valb1)

b64_d_lenient_skip(in) == b64_d_skipping(in, 1, << >>, 0, -8)

b64_d(in) == b64_d_loop(in, 1, << >>, 0, -8)

----------------------------------------------------------------------------
(* Characters and stream extraction *)

IsSpace(c) == c \in {9, 10, 11, 12, 13, 32}
IsDigit(c) == c \in 48..57
IsHexDigit(c) == c \in (48..57) \cup (97..102) \cup (65..70)
HexValue(c) == IF c \in 48..57 THEN c - 48 ELSE IF c \in 97..102 THEN c - 87 ELSE c - 55

INT_MAX == 2147483647
INT_MIN == -2147483647 - 1

\* the formatted extractors skip leading white space (std::skipws)
RECURSIVE SkipWs(_, _)
SkipWs(str, i) == IF i <= Len(str) /\ IsSpace(str[i]) THEN SkipWs(str, i + 1) ELSE i

\* str.substr(from - 1) / str.substr(0, to), 1-indexed and inclusive
Sub(str, from, to) == IF from > to THEN << >> ELSE SubSeq(str, from, to)

\* operator<< of a non-negative integer, base 10
RECURSIVE NatDigits(_)
NatDigits(n) ==
    IF n < 10 THEN << 48 + n >> ELSE Append(NatDigits(n \div 10), 48 + (n % 10))

\* the digits of |v| for v < 0, computed without negating v (INT_MIN has no negation)
RECURSIVE NegDigits(_)
NegDigits(v) ==
    LET d    == (10 - (v % 10)) % 10
        rest == (v + d) \div 10
    IN  IF rest = 0 THEN << 48 + d >> ELSE Append(NegDigits(rest), 48 + d)

\* oss << value, for an int
int_to_text(v) == IF v < 0 THEN << 45 >> \o NegDigits(v) ELSE NatDigits(v)

\* operator<< std::hex of an unsigned integer: lower-case digits, no prefix
RECURSIVE HexDigits(_)
HexDigits(n) ==
    LET d == n % 16
        c == IF d < 10 THEN 48 + d ELSE 87 + d
    IN  IF n < 16 THEN << c >> ELSE Append(HexDigits(n \div 16), c)

\* a number with five decimals is kept as the integer value * 10^5
Scale == 100000

\* the five digits after the decimal point
FracDigits(f) ==
    << 48 + ((f \div 10000) % 10), 48 + ((f \div 1000) % 10),
       48 + ((f \div 100) % 10), 48 + ((f \div 10) % 10), 48 + (f % 10) >>

\* oss << std::fixed << std::setprecision(5) << value, for a double
fixed_to_text(s) ==
    LET a == IF s < 0 THEN -s ELSE s
    IN  (IF s < 0 THEN << 45 >> ELSE << >>)
        \o NatDigits(a \div Scale) \o << 46 >> \o FracDigits(a % Scale)

\* str.find_last_not_of('0'), 1-indexed; 0 stands for npos
RECURSIVE find_last_not_of_zero(_, _)
find_last_not_of_zero(str, i) ==
    IF i = 0 THEN 0
    ELSE IF str[i] # 48 THEN i ELSE find_last_not_of_zero(str, i - 1)

HasPoint(str) == \E i \in 1..Len(str) : str[i] = 46

\* a faulty trim: trailing zeros are trimmed whether or not there is a point
trim_any_zeros(str) ==
    LET t == Sub(str, 1, find_last_not_of_zero(str, Len(str)))
    IN  IF Len(t) > 0 /\ t[Len(t)] = 46 THEN Sub(t, 1, Len(t) - 1) ELSE t

\* Trim trailing zeros after decimal point
trim_zeros(str) ==
    IF HasPoint(str)
    THEN LET t == Sub(str, 1, find_last_not_of_zero(str, Len(str)))
         IN  IF t[Len(t)] = 46 THEN Sub(t, 1, Len(t) - 1) ELSE t
    ELSE str

\* number_to_string<int> and number_to_string<double>
number_to_string_int(v) == trim_zeros(int_to_text(v))
number_to_string_double(s) == trim_zeros(fixed_to_text(s))

\* the digits of an int, accumulated as a non-positive number so that INT_MIN
\* is reached; ovf when the value leaves [INT_MIN, INT_MAX]
RECURSIVE scan_int(_, _, _, _, _, _)
scan_int(str, i, acc, n, ovf, lim) ==
    IF i > Len(str) \/ ~IsDigit(str[i])
    THEN [n |-> n, acc |-> acc, ovf |-> ovf, next |-> i]
    ELSE LET d == str[i] - 48
         IN  IF ovf \/ acc < (lim + d + 9) \div 10
             THEN scan_int(str, i + 1, acc, n + 1, TRUE, lim)
             ELSE scan_int(str, i + 1, acc * 10 - d, n + 1, FALSE, lim)

\* iss >> result, for an int: [fail, val]
extract_int(str) ==
    LET i0   == SkipWs(str, 1)
        sign == i0 <= Len(str) /\ str[i0] \in {43, 45}
        neg  == sign /\ str[i0] = 45
        r    == scan_int(str, IF sign THEN i0 + 1 ELSE i0, 0, 0, FALSE,
                         IF neg THEN INT_MIN ELSE -INT_MAX)
    IN  IF r.n = 0 \/ r.ovf
        THEN [fail |-> TRUE, val |-> 0]
        ELSE [fail |-> FALSE, val |-> IF neg THEN r.acc ELSE -r.acc]

\* the digits of an unsigned integer in the given base
RECURSIVE scan_unsigned(_, _, _, _, _)
scan_unsigned(str, i, acc, n, base) ==
    IF i > Len(str) \/ ~(IF base = 16 THEN IsHexDigit(str[i]) ELSE IsDigit(str[i]))
    THEN [n |-> n, acc |-> acc, next |-> i]
    ELSE scan_unsigned(str, i + 1, acc * base + HexValue(str[i]), n + 1, base)

\* iss >> std::hex >> ptr_val and iss >> stored_pid: [fail, val].  The
\* extraction stops at the first character that is no digit; what follows
\* it is left in the stream.  (Signs and values beyond the type's range do
\* not occur in the tokens of this model.)
extract_unsigned(str, base) ==
    LET i0 == SkipWs(str, 1)
        i1 == IF base = 16 /\ i0 + 2 <= Len(str) /\ str[i0] = 48
                 /\ str[i0 + 1] \in {120, 88} /\ IsHexDigit(str[i0 + 2])
              THEN i0 + 2 ELSE i0
        r  == scan_unsigned(str, i1, 0, 0, base)
    IN  IF r.n = 0 THEN [fail |-> TRUE, val |-> 0] ELSE [fail |-> FALSE, val |-> r.acc]

\* up to five digits after the point, as a number of 10^-5 units
RECURSIVE scan_frac(_, _, _, _)
scan_frac(str, i, acc, n) ==
    IF i > Len(str) \/ ~IsDigit(str[i])
    THEN [n |-> n, acc |-> acc * (10 ^ (IF n < 5 THEN 5 - n ELSE 0))]
    ELSE IF n < 5
    THEN scan_frac(str, i + 1, acc * 10 + (str[i] - 48), n + 1)
    ELSE scan_frac(str, i + 1, acc, n + 1)

\* iss >> result, for a double holding a decimal: [fail, val], val in 10^-5 units
extract_double(str) ==
    LET i0   == SkipWs(str, 1)
        sign == i0 <= Len(str) /\ str[i0] \in {43, 45}
        neg  == sign /\ str[i0] = 45
        w    == scan_unsigned(str, IF sign THEN i0 + 1 ELSE i0, 0, 0, 10)
        pt   == w.next <= Len(str) /\ str[w.next] = 46
        f    == IF pt THEN scan_frac(str, w.next + 1, 0, 0) ELSE [n |-> 0, acc |-> 0]
        mag  == w.acc * Scale + f.acc
    IN  IF w.n = 0 /\ f.n = 0
        THEN [fail |-> TRUE, val |-> 0]
        ELSE [fail |-> FALSE, val |-> IF neg THEN -mag ELSE mag]

\* string_to_number<int> and string_to_number<double>
string_to_number_int(str, default_val) ==
    LET r == extract_int(str) IN IF r.fail THEN default_val ELSE r.val

string_to_number_double(str, default_val) ==
    LET r == extract_double(str) IN IF r.fail THEN default_val ELSE r.val

----------------------------------------------------------------------------
(* The registry key and the reg_api instance *)

NULL == 0

\* value names used by the callers
NAMES == {"k", "other"}

\* process ids
PIDS == {7, 8}

\* key handles the operating system hands out
HANDLES == {1, 2}

\* a value of the key: REG_SZ data as stored, terminator included
NoValue == [exists |-> FALSE, data |-> << >>]
Value(data) == [exists |-> TRUE, data |-> data]

\* results of the operations, in one shape
Returned(val) == [kind |-> "ok", val |-> val]
ReturnedBool(b) == [kind |-> "ok", val |-> << IF b THEN 1 ELSE 0 >>]
ReturnedVoid == [kind |-> "void", val |-> << >>]
Thrown(what) == [kind |-> what, val |-> << >>]

\* std::string(buffer.data()): the characters before the first NUL
RECURSIVE CStrLen(_, _)
CStrLen(buffer, i) ==
    IF i > Len(buffer) \/ buffer[i] = 0 THEN i - 1 ELSE CStrLen(buffer, i + 1)

CStr(buffer) == Sub(buffer, 1, CStrLen(buffer, 1))

\* RegQueryValueExA(h, name, ...) == ERROR_SUCCESS
RegQueryValueExA(h, value_name) == h \in open_handles /\ store[value_name].exists

\* reg_api::value_exists
value_exists(value_name) ==
    IF ~m_is_open THEN FALSE ELSE RegQueryValueExA(m_h_key, value_name)

\* reg_api::read_string
read_string(value_name, default_value) ==
    IF ~m_is_open \/ ~value_exists(value_name)
    THEN default_value
    ELSE IF ~RegQueryValueExA(m_h_key, value_name)
    THEN default_value
    ELSE LET data   == store[value_name].data
             buffer == IF Len(data) > 0 /\ data[Len(data)] # 0
                       THEN Append(data, 0) ELSE data
         IN  CStr(buffer)

\* a faulty write_string: the write goes ahead with no key open
write_string_unguarded(value_name, value) ==
    [ret |-> TRUE, store |-> [store EXCEPT ![value_name] = Value(Append(value, 0))]]

\* reg_api::write_string: the result and the key's values after it
write_string(value_name, value) ==
    IF ~m_is_open
    THEN [ret |-> FALSE, store |-> store]
    ELSE IF m_h_key \in open_handles
    THEN [ret |-> TRUE,
          store |-> [store EXCEPT ![value_name] = Value(Append(value, 0))]]
    ELSE [ret |-> FALSE, store |-> store]

\* reg_api::delete_value
delete_value(value_name) ==
    IF ~m_is_open
    THEN [ret |-> FALSE, store |-> store]
    ELSE IF RegQueryValueExA(m_h_key, value_name)
    THEN [ret |-> TRUE, store |-> [store EXCEPT ![value_name] = NoValue]]
    ELSE [ret |-> FALSE, store |-> store]

\* a faulty read_number: a missing value reads as T(), not as the default
read_number_zero(value_name, default_value) ==
    LET str_value == read_string(value_name, << >>)
    IN  IF str_value = << >> THEN 0
        ELSE string_to_number_int(str_value, default_value)

\* reg_api::read_number<int>
read_number(value_name, default_value) ==
    LET str_value == read_string(value_name, << >>)
    IN  IF str_value = << >> THEN default_value
        ELSE string_to_number_int(str_value, default_value)

\* reg_api::write_number<int>
write_number(value_name, value) == write_string(value_name, number_to_string_int(value))

\* oss << std::hex << ptr << "_" << std::dec << current_pid
pointer_token(ptr, current_pid) == HexDigits(ptr) \o << 95 >> \o NatDigits(current_pid)

\* reg_api::write_pointer
write_pointer(value_name, ptr) ==
    IF ~m_is_open \/ ptr = NULL
    THEN [ret |-> FALSE, store |-> store]
    ELSE write_string(value_name, pointer_token(ptr, pid))

\* str_value.find('_'), 1-indexed; 0 stands for npos
RECURSIVE find_underscore(_, _)
find_underscore(str, i) ==
    IF i > Len(str) THEN 0
    ELSE IF str[i] = 95 THEN i ELSE find_underscore(str, i + 1)

\* a faulty decoding: the stored process id is not compared with the current one
pointer_of_token_any_pid(str_value, default_value, current_pid) ==
    LET separator_pos == find_underscore(str_value, 1)
        p == extract_unsigned(Sub(str_value, 1, separator_pos - 1), 16)
        q == extract_unsigned(Sub(str_value, separator_pos + 1, Len(str_value)), 10)
    IN  IF separator_pos = 0 \/ p.fail \/ q.fail THEN default_value ELSE p.val

\* reg_api::read_pointer, from the separator on
pointer_of_token(str_value, default_value, current_pid) ==
    LET separator_pos == find_underscore(str_value, 1)
    IN  IF separator_pos = 0
        THEN default_value
        ELSE LET ptr_str == Sub(str_value, 1, separator_pos - 1)
                 pid_str == Sub(str_value, separator_pos + 1, Len(str_value))
                 p == extract_unsigned(ptr_str, 16)
                 q == extract_unsigned(pid_str, 10)
             IN  IF p.fail \/ q.fail THEN default_value
                 ELSE IF current_pid # q.val THEN default_value
                 ELSE p.val

\* reg_api::read_pointer
read_pointer(value_name, default_value) ==
    LET str_value == read_string(value_name, << >>)
    IN  IF str_value = << >> THEN default_value
        ELSE pointer_of_token(str_value, default_value, pid)

\* a faulty serialisation: the record's bytes are stored as they are
obj_to_string_raw(t_obj) == t_obj

\* write_obj, steps 1 and 2: the record's bytes, Base64-encoded
obj_to_string(t_obj) == b64(t_obj)

\* reg_api::write_obj (returns nothing)
write_obj(key, t_obj) == write_string(key, obj_to_string(t_obj))

\* a faulty size check: a longer decoding is cut to sizeof(T)
obj_of_string_cut(encoded_string, size) ==
    LET obj_string == b64_d(encoded_string)
    IN  IF Len(obj_string) < size THEN Thrown("SizeMismatch")
        ELSE Returned(Sub(obj_string, 1, size))

\* read_obj, steps 2 to 4, for a T of the given sizeof
obj_of_string(encoded_string, size) ==
    LET obj_string == b64_d(encoded_string)
    IN  IF Len(obj_string) # size THEN Thrown("SizeMismatch")
        ELSE Returned(obj_string)

\* reg_api::read_obj<T>, sizeof(T) = size
read_obj(key, size) ==
    LET encoded_string == read_string(key, << >>)
    IN  IF encoded_string = << >> THEN Thrown("KeyNotFound")
        ELSE obj_of_string(encoded_string, size)

\* a faulty close: the fields are reset but the handle is not closed
close_without_release ==
    IF m_is_open /\ m_h_key # NULL
    THEN [open_handles |-> open_handles, double_close |-> double_close,
          m_h_key |-> NULL, m_is_open |-> FALSE]
    ELSE [open_handles |-> open_handles, double_close |-> double_close,
          m_h_key |-> m_h_key, m_is_open |-> m_is_open]

\* reg_api::close: the handles and the fields after it
close ==
    IF m_is_open /\ m_h_key # NULL
    THEN [open_handles |-> open_handles \ {m_h_key},
          double_close |-> double_close \/ m_h_key \notin open_handles,
          m_h_key |-> NULL, m_is_open |-> FALSE]
    ELSE [open_handles |-> open_handles, double_close |-> double_close,
          m_h_key |-> m_h_key, m_is_open |-> m_is_open]

----------------------------------------------------------------------------
(* The callers' inputs *)

\* strings handed to write_string:
\*   ""  "@QUI="  "\0A"  "1f_7x"  "1f_7_9"  "1f"  "zz_7"  "1f_zz"
STRINGS ==
    { << >>,
      << 64, 81, 85, 73, 61 >>,
      << 0, 65 >>,
      << 49, 102, 95, 55, 120 >>,
      << 49, 102, 95, 55, 95, 57 >>,
      << 49, 102 >>,
      << 122, 122, 95, 55 >>,
      << 49, 102, 95, 122, 122 >> }

\* defaults handed to read_string: "fallback" shortened to "fb", and ""
STRING_DEFAULTS == { << 102, 98 >>, << >> }

\* numbers handed to write_number<int>, and defaults handed to read_number<int>
NUMBERS == {100, -5}
NUMBER_DEFAULTS == {42, 0}

\* addresses handed to write_pointer (0x1f, 0xab0 and nullptr), and defaults
\* handed to read_pointer (nullptr and 0xdd)
ADDRESSES == {NULL, 31, 2736}
POINTER_DEFAULTS == {NULL, 221}

\* struct xyz {int x, y, z} = {11, 22, 33} of main(), as its twelve bytes
XYZ == << 11, 0, 0, 0, 22, 0, 0, 0, 33, 0, 0, 0 >>

\* the records handed to write_obj, as their bytes: every small record over
\* two byte values, and xyz
RECORDS == [1..MaxRecSize -> {0, 255}] \cup { XYZ }

\* sizeof(T) of the T handed to read_obj<T>: smaller than, equal to and
\* larger than what is stored
SIZES == { 1, MaxRecSize, Len(XYZ) }

----------------------------------------------------------------------------
(* The state machine of one instance at a time *)

\* a call: the operation, the value name, the default handed in (for read_obj,
\* sizeof(T)), the result, and whether a key was open when it was made
NoCall == [op |-> "constructor", name |-> "", def |-> << >>,
           ret |-> ReturnedVoid, open |-> FALSE]

Call(op, name, def, ret) ==
    [op |-> op, name |-> name, def |-> def, ret |-> ret, open |-> m_is_open]

\* which typed write stored a value: for a pointer the address and the
\* writing process, for an object the record's bytes
Origin(kind, val, p) == [kind |-> kind, val |-> val, pid |-> p]

NoOrigin == [kind |-> "none", val |-> << >>, pid |-> 0]

PureIdle ==
    /\ fn = "none"
    /\ input = [kind |-> "none", s |-> << >>]
    /\ mid = << >>
    /\ output = << >>

\* reg_api::reg_api, in a process of any id, over an empty key
Init ==
    /\ alive = TRUE
    /\ pid \in PIDS
    /\ m_h_key = NULL
    /\ m_is_open = FALSE
    /\ open_handles = {}
    /\ double_close = FALSE
    /\ store = [n \in NAMES |-> NoValue]
    /\ origin = [n \in NAMES |-> NoOrigin]
    /\ last = NoCall
    /\ PureIdle

\* reg_api::chroot; the results of RegOpenKeyExA and of RegCreateKeyExA are
\* the registry's to choose (TRUE is ERROR_SUCCESS)
Chroot(open_ok, create_ok) ==
    /\ alive
    /\ LET c == close
           result == open_ok \/ create_ok
       IN  /\ double_close' = c.double_close
           /\ IF result
              THEN \E h \in HANDLES \ c.open_handles :
                      /\ m_h_key' = h
                      /\ open_handles' = c.open_handles \cup {h}
              ELSE /\ m_h_key' = c.m_h_key
                   /\ open_handles' = c.open_handles
           /\ m_is_open' = result
           /\ last' = Call("chroot", "", << >>, ReturnedBool(result))
    /\ UNCHANGED << alive, pid, store, origin, pure_vars >>

\* reg_api::close
Close ==
    /\ alive
    /\ LET c == close
       IN  /\ open_handles' = c.open_handles
           /\ double_close' = c.double_close
           /\ m_h_key' = c.m_h_key
           /\ m_is_open' = c.m_is_open
    /\ last' = Call("close", "", << >>, ReturnedVoid)
    /\ UNCHANGED << alive, pid, store, origin, pure_vars >>

\* reg_api::~reg_api
Destroy ==
    /\ alive
    /\ LET c == close
       IN  /\ open_handles' = c.open_handles
           /\ double_close' = c.double_close
           /\ m_h_key' = c.m_h_key
           /\ m_is_open' = c.m_is_open
    /\ alive' = FALSE
    /\ last' = Call("destructor", "", << >>, ReturnedVoid)
    /\ UNCHANGED << pid, store, origin, pure_vars >>

\* reg_api::reg_api in a later process: the key's values persist
NewProcess(p) ==
    /\ ~alive
    /\ alive' = TRUE
    /\ pid' = p
    /\ m_h_key' = NULL
    /\ m_is_open' = FALSE
    /\ last' = NoCall
    /\ UNCHANGED << open_handles, double_close, store, origin, pure_vars >>

\* what a read leaves alone
ReadOnly ==
    UNCHANGED << alive, pid, m_h_key, m_is_open, open_handles, double_close,
                 store, origin, pure_vars >>

\* what a write or a delete does to the key
Written(value_name, w, org) ==
    /\ store' = w.store
    /\ origin' = IF w.ret THEN [origin EXCEPT ![value_name] = org] ELSE origin
    /\ UNCHANGED << alive, pid, m_h_key, m_is_open, open_handles, double_close,
                    pure_vars >>

ReadString(value_name, default_value) ==
    /\ alive
    /\ last' = Call("read_string", value_name, default_value,
                    Returned(read_string(value_name, default_value)))
    /\ ReadOnly

WriteString(value_name, value) ==
    /\ alive
    /\ LET w == write_string(value_name, value)
       IN  /\ last' = Call("write_string", value_name, << >>, ReturnedBool(w.ret))
           /\ Written(value_name, w, Origin("string", << >>, 0))

ValueExists(value_name) ==
    /\ alive
    /\ last' = Call("value_exists", value_name, << >>,
                    ReturnedBool(value_exists(value_name)))
    /\ ReadOnly

DeleteValue(value_name) ==
    /\ alive
    /\ LET w == delete_value(value_name)
       IN  /\ last' = Call("delete_value", value_name, << >>, ReturnedBool(w.ret))
           /\ Written(value_name, w, Origin("deleted", << >>, 0))

ReadNumber(value_name, default_value) ==
    /\ alive
    /\ last' = Call("read_number", value_name, << default_value >>,
                    Returned(<< read_number(value_name, default_value) >>))
    /\ ReadOnly

WriteNumber(value_name, value) ==
    /\ alive
    /\ LET w == write_number(value_name, value)
       IN  /\ last' = Call("write_number", value_name, << >>, ReturnedBool(w.ret))
           /\ Written(value_name, w, Origin("number", << >>, 0))

WritePointer(value_name, ptr) ==
    /\ alive
    /\ LET w == write_pointer(value_name, ptr)
       IN  /\ last' = Call("write_pointer", value_name, << >>, ReturnedBool(w.ret))
           /\ Written(value_name, w, Origin("pointer", << ptr >>, pid))

ReadPointer(value_name, default_value) ==
    /\ alive
    /\ last' = Call("read_pointer", value_name, << default_value >>,
                    Returned(<< read_pointer(value_name, default_value) >>))
    /\ ReadOnly

\* write_obj returns nothing: the result of write_string is dropped
WriteObj(key, t_obj) ==
    /\ alive
    /\ LET w == write_obj(key, t_obj)
       IN  /\ last' = Call("write_obj", key, << >>, ReturnedVoid)
           /\ Written(key, w, Origin("object", t_obj, 0))

\* read_obj<T> takes no default; def holds sizeof(T)
ReadObj(key, size) ==
    /\ alive
    /\ last' = Call("read_obj", key, << size >>, read_obj(key, size))
    /\ ReadOnly

Next ==
    \/ \E open_ok, create_ok \in BOOLEAN : Chroot(open_ok, create_ok)
    \/ Close
    \/ Destroy
    \/ \E p \in PIDS : NewProcess(p)
    \/ \E n \in NAMES, d \in STRING_DEFAULTS : ReadString(n, d)
    \/ \E n \in NAMES, v \in STRINGS : WriteString(n, v)
    \/ \E n \in NAMES : ValueExists(n)
    \/ \E n \in NAMES : DeleteValue(n)
    \/ \E n \in NAMES, d \in NUMBER_DEFAULTS : ReadNumber(n, d)
    \/ \E n \in NAMES, v \in NUMBERS : WriteNumber(n, v)
    \/ \E n \in NAMES, a \in ADDRESSES : WritePointer(n, a)
    \/ \E n \in NAMES, d \in POINTER_DEFAULTS : ReadPointer(n, d)
    \/ \E n \in NAMES, r \in RECORDS : WriteObj(n, r)
    \/ \E n \in NAMES, z \in SIZES : ReadObj(n, z)

Spec == Init /\ [][Next]_vars

----------------------------------------------------------------------------
(* The Base64 codec applied to bounded inputs *)

\* byte values of the sequences handed to b64
BYTES == {0, 1, 128, 255}

\* characters of the texts handed to b64_d: 'A' 'B' '/' '=' '@' and 0xC8
TEXT_CHARS == {65, 66, 47, 61, 64, 200}

SeqsUpTo(S, n) == UNION { [1..k -> S] : k \in 0..n }

InstIdle ==
    /\ alive = FALSE
    /\ pid = 0
    /\ m_h_key = NULL
    /\ m_is_open = FALSE
    /\ open_handles = {}
    /\ double_close = FALSE
    /\ store = [n \in NAMES |-> NoValue]
    /\ origin = [n \in NAMES |-> NoOrigin]
    /\ last = NoCall

InitB64 ==
    /\ InstIdle
    /\ fn = "input"
    /\ input \in [kind : {"bytes"}, s : SeqsUpTo(BYTES, MaxBytes)]
                 \cup [kind : {"text"}, s : SeqsUpTo(TEXT_CHARS, MaxText)]
    /\ mid = << >>
    /\ output = << >>

\* b64(in)
Encode ==
    /\ fn = "input"
    /\ input.kind = "bytes"
    /\ mid' = b64(input.s)
    /\ fn' = "b64"
    /\ UNCHANGED << input, output, inst_vars >>

\* b64_d(b64(in))
DecodeEncoded ==
    /\ fn = "b64"
    /\ output' = b64_d(mid)
    /\ fn' = "b64_d(b64)"
    /\ UNCHANGED << input, mid, inst_vars >>

\* b64_d(in) of any text
DecodeText ==
    /\ fn = "input"
    /\ input.kind = "text"
    /\ output' = b64_d(input.s)
    /\ fn' = "b64_d"
    /\ UNCHANGED << input, mid, inst_vars >>

NextB64 == Encode \/ DecodeEncoded \/ DecodeText

SpecB64 == InitB64 /\ [][NextB64]_vars

----------------------------------------------------------------------------
(* The numeric codec applied to bounded inputs *)

\* the digits after the point of the decimals handed to number_to_string<double>
FRACTIONS == {0, 1, 10, 500, 14159, 50000, 99000, 99999}

INTEGERS == (-MaxWhole..MaxWhole) \cup {1000, -1000, INT_MAX, INT_MIN}

DECIMALS ==
    { sgn * (w * Scale + f) : sgn \in {1, -1}, w \in 0..MaxWhole, f \in FRACTIONS }

InitNum ==
    /\ InstIdle
    /\ fn = "input"
    /\ input \in [kind : {"int"}, v : INTEGERS, d : {42, -1}]
                 \cup [kind : {"double"}, v : DECIMALS, d : {42 * Scale, -1}]
    /\ mid = << >>
    /\ output = << >>

\* number_to_string<T>(v)
NumberToString ==
    /\ fn = "input"
    /\ mid' = IF input.kind = "int"
              THEN number_to_string_int(input.v)
              ELSE number_to_string_double(input.v)
    /\ fn' = "number_to_string"
    /\ UNCHANGED << input, output, inst_vars >>

\* string_to_number<T>(number_to_string<T>(v), d)
StringToNumber ==
    /\ fn = "number_to_string"
    /\ output' = IF input.kind = "int"
                 THEN << string_to_number_int(mid, input.d) >>
                 ELSE << string_to_number_double(mid, input.d) >>
    /\ fn' = "string_to_number"
    /\ UNCHANGED << input, mid, inst_vars >>

NextNum == NumberToString \/ StringToNumber

SpecNum == InitNum /\ [][NextNum]_vars

----------------------------------------------------------------------------
(* Properties *)

\* C1: for every byte sequence b, the empty one and those long enough for the
\* 32-bit accumulator to have shifted past its width included,
\* b64_d(b64(b)) = b.
B64RoundTrip == fn = "b64_d(b64)" => output = input.s

\* a sequence of more than four bytes whose first byte has its top bit set,
\* so that val << 8 has wrapped, came back unchanged
B64RoundTripWitness ==
    /\ fn = "b64_d(b64)"
    /\ Len(input.s) > 4
    /\ input.s[1] >= 128
    /\ Len(mid) = 8
    /\ output = input.s

IsAlphabet(c) == c \in (65..90) \cup (97..122) \cup (48..57) \cup {43, 47}

\* the longest prefix of s made only of the 64 alphabet characters
RECURSIVE ValidPrefixLen(_, _)
ValidPrefixLen(str, i) ==
    IF i > Len(str) \/ ~IsAlphabet(str[i]) THEN i - 1 ELSE ValidPrefixLen(str, i + 1)

ValidPrefix(str) == Sub(str, 1, ValidPrefixLen(str, 1))

\* C8: for every text s, b64_d(s) is a byte sequence (never an error) and is
\* what b64_d makes of the longest prefix of s within the alphabet: six bits a
\* character, whole bytes only; nothing from the first other character on
\* ('=' included) has any influence.
B64DecodeLenient ==
    fn = "b64_d" =>
        LET p == ValidPrefix(input.s)
        IN  /\ output = b64_d(p)
            /\ Len(output) = (6 * Len(p)) \div 8
            /\ \A i \in 1..Len(output) : output[i] \in 0..255

\* "AB@@" decoded to the one byte that "AB" holds
B64DecodeLenientWitness ==
    /\ fn = "b64_d"
    /\ input.s = << 65, 66, 64, 64 >>
    /\ output = << 0 >>

\* the characters before the decimal point
RECURSIVE WholeLen(_, _)
WholeLen(str, i) ==
    IF i > Len(str) \/ str[i] = 46 THEN i - 1 ELSE WholeLen(str, i + 1)

WholePart(str) == Sub(str, 1, WholeLen(str, 1))

\* the sign and the digits of the integral part of the number handed in
WholeDigits ==
    IF input.kind = "int"
    THEN int_to_text(input.v)
    ELSE (IF input.v < 0 THEN << 45 >> ELSE << >>)
         \o NatDigits((IF input.v < 0 THEN -input.v ELSE input.v) \div Scale)

\* C7: for every int v, and every decimal v with at most five digits after
\* the point, string_to_number(number_to_string(v), d) = v whatever d is, and
\* the text keeps every digit of the integral part.
NumberRoundTrip ==
    fn = "string_to_number" =>
        /\ output = << input.v >>
        /\ WholePart(mid) = WholeDigits

\* 100.00000 was trimmed to "100" and read back as 100
NumberRoundTripWitness ==
    /\ fn = "string_to_number"
    /\ input.kind = "double"
    /\ input.v = 100 * Scale
    /\ input.d # input.v
    /\ mid = << 49, 48, 48 >>
    /\ output = << input.v >>

\* C2: on an open key, read_obj<T>(k) of a value last stored by write_obj(k, R)
\* with R a T returns R, byte for byte.
ObjectRoundTrip ==
    ( /\ last.op = "read_obj"
      /\ last.open
      /\ origin[last.name].kind = "object"
      /\ Len(origin[last.name].val) = last.def[1] )
    => last.ret = Returned(origin[last.name].val)

\* xyz {11, 22, 33} of main(), whose bytes are mostly zero, was read back
ObjectRoundTripWitness ==
    /\ last.op = "read_obj"
    /\ last.open
    /\ origin[last.name] = Origin("object", XYZ, 0)
    /\ last.ret = Returned(XYZ)

\* C3: read_obj<T>(k) of a stored non-empty string whose Base64 decoding is
\* not sizeof(T) bytes long throws the size mismatch; it returns a record
\* only when the decoding is exactly sizeof(T) bytes long, and then all of it.
ObjectSizeChecked ==
    ( /\ last.op = "read_obj"
      /\ last.open
      /\ store[last.name].exists
      /\ CStr(store[last.name].data) # << >> )
    => LET decoded == b64_d(CStr(store[last.name].data))
           size    == last.def[1]
       IN  /\ Len(decoded) # size => last.ret = Thrown("SizeMismatch")
           /\ last.ret.kind = "ok" => Len(decoded) = size /\ last.ret.val = decoded

\* a longer record was stored and a shorter T asked for: no truncated record
ObjectSizeCheckedWitness ==
    /\ last.op = "read_obj"
    /\ last.open
    /\ store[last.name].exists
    /\ Len(b64_d(CStr(store[last.name].data))) > last.def[1]
    /\ last.ret = Thrown("SizeMismatch")

TypedReads == {"read_string", "read_number", "read_pointer", "read_obj"}
TypedWrites == {"write_string", "write_number", "write_pointer", "write_obj"}

PointerProcessGate ==
    ( /\ last.op = "read_pointer"
      /\ last.open
      /\ origin[last.name].kind = "pointer" )
    => last.ret = Returned(IF origin[last.name].pid = pid
                           THEN origin[last.name].val
                           ELSE last.def)

\* a token of an earlier process was read in a later one: the default came back
PointerProcessGateWitness ==
    /\ last.op = "read_pointer"
    /\ last.open
    /\ origin[last.name].kind = "pointer"
    /\ origin[last.name].pid # pid
    /\ last.def # origin[last.name].val
    /\ last.ret = Returned(last.def)

\* C6: on an open key, for a name that holds no value (never written, or
\* deleted since), whatever was done to other names, read_string(name, d) and
\* read_number(name, d) return d.
MissingValueDefault ==
    ( /\ last.op \in {"read_string", "read_number"}
      /\ last.open
      /\ ~store[last.name].exists )
    => last.ret = Returned(last.def)

\* a name written and then deleted, beside a name that holds a value, read as 42
MissingValueDefaultWitness ==
    /\ last.op = "read_number"
    /\ last.open
    /\ origin[last.name].kind = "deleted"
    /\ \E n \in NAMES \ {last.name} : store[n].exists
    /\ last.def = << 42 >>
    /\ last.ret = Returned(<< 42 >>)

\* a token in full: hexadecimal digits, one underscore, decimal digits
WellFormedToken(str) ==
    \E i \in 2..(Len(str) - 1) :
        /\ str[i] = 95
        /\ \A j \in 1..(i - 1) : IsHexDigit(str[j])
        /\ \A j \in (i + 1)..Len(str) : IsDigit(str[j])

\* C9: read_pointer returns the caller's default for every stored token
\* that has no underscore, or whose address segment is not a hexadecimal
\* number in full, or whose process-id segment is not a decimal number in
\* full (trailing characters, a second underscore).
PointerTokenStrict ==
    ( /\ last.op = "read_pointer"
      /\ last.open
      /\ store[last.name].exists
      /\ ~WellFormedToken(CStr(store[last.name].data)) )
    => last.ret = Returned(last.def)

\* C10: whatever chroot (succeeding or failing), close and destruction did,
\* one key handle is open exactly when m_is_open is true, and it is m_h_key;
\* none otherwise; no handle was closed twice; none is open after destruction.
HandleAccounting ==
    /\ Cardinality(open_handles) = (IF m_is_open THEN 1 ELSE 0)
    /\ m_is_open => open_handles = {m_h_key}
    /\ ~double_close
    /\ ~alive => open_handles = {}

\* a chroot on an instance whose key was open: the old handle closed, one open
HandleAccountingWitness ==
    /\ last.op = "chroot"
    /\ last.open
    /\ m_is_open
    /\ open_handles = {m_h_key}

=============================================================================
